---------------------------- MODULE Spec2Model ----------------------------
(***************************************************************************)
(* Model of touchHLE's Objective-C class registry (src/objc/classes.rs):   *)
(* linking of classes from host templates (link_class, get_known_class,    *)
(* link_class_inner) and registration of the classes and categories of an  *)
(* app binary (register_bin_classes, register_bin_categories).             *)
(*                                                                         *)
(* link_class_inner is modelled step by step with an explicit call stack,  *)
(* because it is recursive (superclasses are linked first) and because the *)
(* metaclass is allocated with a nil isa that is patched afterwards.       *)
(***************************************************************************)
EXTENDS Integers, Sequences, FiniteSets, TLC

(***************************************************************************)
(* Bounds of the model.                                                    *)
(***************************************************************************)
\* Depth of the link_class_inner recursion at which the host stack overflows.
MaxDepth == 4

(***************************************************************************)
(* Values.                                                                 *)
(***************************************************************************)
\* objc::nil, the null object pointer.
nil == 0

\* Option::None, for an Option<Instant> and an Option<(GLuint, GLuint)>.
None == -1

\* CGRect {origin: CGPoint {x, y}, size: CGSize {width, height}}.
CGRect(x, y, width, height) ==
    [origin |-> [x |-> x, y |-> y], size |-> [width |-> width, height |-> height]]

\* A CGRect local that is not assigned yet.
NoRect == CGRect(0, 0, 0 - 1, 0 - 1)

\* Class names the guest app and the host frameworks refer to.
Names == {"NSObject", "Foo", "Bar"}

\* Option::None for an absent superclass name.
NoName == "None"

\* Method names.
SelNames == {"init", "bar", "baz"}

\* The order in which selector names are interned.
SelOrder == <<"init", "bar", "baz">>

\* IMP::Host(f) and IMP::Guest(addr).
HostIMP(k) == [kind |-> "Host", id |-> k]
GuestIMP(k) == [kind |-> "Guest", id |-> k]

\* The empty HashMap<SEL, IMP>.
EmptyMethods == [s \in {} |-> HostIMP(0)]

(***************************************************************************)
(* The template catalog (CLASS_LISTS).  A ClassTemplate has a name, an     *)
(* optional superclass name and two lists of (selector name, HostIMP).     *)
(***************************************************************************)
ClassTemplate(n, super, cms, ims) ==
    [name |-> n, superclass |-> super, class_methods |-> cms, instance_methods |-> ims]

TplNSObject == ClassTemplate("NSObject", NoName,
                             <<<<"init", HostIMP(1)>>>>,
                             <<<<"init", HostIMP(2)>>, <<"bar", HostIMP(3)>>,
                               <<"init", HostIMP(6)>>>>)
TplFoo(super) == ClassTemplate("Foo", super,
                               <<<<"init", HostIMP(7)>>>>,
                               <<<<"bar", HostIMP(4)>>>>)
TplBar(super) == ClassTemplate("Bar", super,
                               <<<<"bar", HostIMP(5)>>>>,
                               <<>>)

\* The catalogs a build of the host frameworks may contain: a root with one
\* subclass, a chain of three, a template whose superclass has no template
\* together with a subclass of it, and two templates naming each other as
\* superclass.
Catalogs ==
    { [n \in {"NSObject", "Foo"} |->
          IF n = "NSObject" THEN TplNSObject ELSE TplFoo("NSObject")],
      [n \in {"NSObject", "Foo", "Bar"} |->
          IF n = "NSObject" THEN TplNSObject
          ELSE IF n = "Foo" THEN TplFoo("NSObject") ELSE TplBar("Foo")],
      [n \in {"Foo", "Bar"} |->
          IF n = "Foo" THEN TplFoo("NSObject") ELSE TplBar("Foo")],
      [n \in {"Foo", "Bar"} |->
          IF n = "Foo" THEN TplFoo("Bar") ELSE TplBar("Foo")] }

\* find_template: the template of a name in a catalog, if any.
HasTemplate(cat, name) == name \in DOMAIN cat
find_template(cat, name) == cat[name]

(***************************************************************************)
(* Guest memory of the app binary: class_t/class_rw_t records and          *)
(* category_t records at fixed guest addresses, and the binary's sections. *)
(***************************************************************************)
\* class_t {isa, superclass, data -> class_rw_t {name, base_methods}}.
BinClass(i, super, n, ms) ==
    [isa |-> i, superclass |-> super, name |-> n, base_methods |-> ms]

BinClassAddrs == {101, 102, 103, 104, 105}

BinClassRec ==
    [a \in BinClassAddrs |->
        CASE a = 101 -> BinClass(102, nil, "Foo", <<<<"bar", GuestIMP(1)>>>>)
          [] a = 102 -> BinClass(102, nil, "Foo", <<>>)
          [] a = 103 -> BinClass(104, 101, "Bar", <<<<"baz", GuestIMP(2)>>>>)
          [] a = 104 -> BinClass(102, 102, "Bar", <<<<"bar", GuestIMP(3)>>>>)
          [] a = 105 -> BinClass(104, nil, "Foo", <<>>)]

\* category_t {name, class, instance_methods, class_methods}.
BinCategory(n, c, ims, cms) ==
    [name |-> n, class |-> c, instance_methods |-> ims, class_methods |-> cms]

BinCategoryAddrs == {201, 202, 203}

BinCategoryRec ==
    [a \in BinCategoryAddrs |->
        CASE a = 201 -> BinCategory("FooExt", 101,
                                    <<<<"baz", GuestIMP(4)>>>>,
                                    <<<<"baz", GuestIMP(5)>>>>)
          [] a = 202 -> BinCategory("FooOverride", 101,
                                    <<<<"bar", GuestIMP(6)>>, <<"baz", GuestIMP(7)>>>>,
                                    <<>>)
          [] a = 203 -> BinCategory("BarExt", 103,
                                    <<<<"bar", GuestIMP(8)>>>>,
                                    <<>>)]

\* A section of a MachO: its byte size and the 4-byte words stored at its
\* address; NoSection when get_section finds none.
NoSection == [present |-> FALSE, size |-> 0, words |-> <<>>]
Section(sz, ws) == [present |-> TRUE, size |-> sz, words |-> ws]

MachO(cl, cat) == [objc_classlist |-> cl, objc_catlist |-> cat]

\* The app binaries offered to the loader.
Binaries ==
    { MachO(Section(8, <<101, 103>>), Section(8, <<201, 202>>)),
      MachO(Section(8, <<103, 105>>), Section(4, <<203>>)),
      MachO(Section(6, <<101, 103>>), Section(5, <<201, 202>>)),
      MachO(NoSection, NoSection) }

(***************************************************************************)
(* Host objects.                                                           *)
(***************************************************************************)
\* ClassHostObject {name, is_metaclass, superclass, methods}.
ClassHostObject(n, meta, super, ms) ==
    [kind |-> "class", name |-> n, is_metaclass |-> meta,
     superclass |-> super, methods |-> ms]

\* UnimplementedClass {name, is_metaclass}: no superclass, no methods.
UnimplementedClass(n, meta) ==
    [kind |-> "unimplemented", name |-> n, is_metaclass |-> meta,
     superclass |-> nil, methods |-> EmptyMethods]

\* A host object local of link_class_inner that is not assigned yet.
NoObject ==
    [kind |-> "none", name |-> "", is_metaclass |-> FALSE,
     superclass |-> nil, methods |-> EmptyMethods]

(***************************************************************************)
(* Selectors: objc.selectors maps a method name to its SEL.  SELs are      *)
(* numbered in the order the names are interned.                           *)
(***************************************************************************)
EmptySelectors == [n \in {} |-> 0]

\* Intern a name: an already known name keeps its SEL.
register_selector(sels, name) ==
    IF name \in DOMAIN sels
    THEN sels
    ELSE sels @@ (name :> (Cardinality(DOMAIN sels) + 1))

\* The names of a list of (name, implementation) pairs.
MethodNames(list) == { list[i][1] : i \in 1..Len(list) }

\* The method names that occur in some template of the catalog.
TemplateSelNames(cat) ==
    UNION { MethodNames(cat[n].class_methods) \cup MethodNames(cat[n].instance_methods) :
            n \in DOMAIN cat }

RECURSIVE RegisterNames(_, _, _)
\* Intern, in the order of the sequence, the names of it that are wanted.
RegisterNames(sels, names, wanted) ==
    IF names = <<>>
    THEN sels
    ELSE RegisterNames(IF Head(names) \in wanted
                       THEN register_selector(sels, Head(names))
                       ELSE sels,
                       Tail(names), wanted)

\* ObjC::register_host_selectors: every method name of every template is
\* interned before any class is linked.
register_host_selectors(cat) ==
    RegisterNames(EmptySelectors, SelOrder, TemplateSelNames(cat))

(***************************************************************************)
(* Method tables.                                                          *)
(***************************************************************************)
\* LastIndexOf in which the first pair with the key wins.
LastIndexOf_First(keys, k) ==
    CHOOSE i \in 1..Len(keys) :
        /\ keys[i] = k
        /\ \A j \in 1..(i - 1) : keys[j] # k

\* HashMap::from_iter over (key, value) pairs: a later pair replaces an
\* earlier one with the same key.
LastIndexOf(keys, k) ==
    CHOOSE i \in 1..Len(keys) :
        /\ keys[i] = k
        /\ \A j \in (i + 1)..Len(keys) : keys[j] # k

HashMapFromPairs(keys, vals) ==
    [k \in { keys[i] : i \in 1..Len(keys) } |-> vals[LastIndexOf(keys, k)]]

\* HashMap::insert of every pair of the second map into the first.
HashMapExtend(m, extra) ==
    [k \in DOMAIN m \cup DOMAIN extra |-> IF k \in DOMAIN extra THEN extra[k] ELSE m[k]]

\* The template's method list for the class side or the metaclass side.
TemplateMethodList(template, is_metaclass) ==
    IF is_metaclass THEN template.class_methods ELSE template.instance_methods

\* objc.selectors[name] panics on a name that was never interned.
FromTemplatePanics(template, is_metaclass, sels) ==
    \E i \in 1..Len(TemplateMethodList(template, is_metaclass)) :
        TemplateMethodList(template, is_metaclass)[i][1] \notin DOMAIN sels

\* from_template that builds a class host object on the metaclass side too.
from_template_AlwaysClass(template, is_metaclass, superclass, sels) ==
    LET list == TemplateMethodList(template, is_metaclass)
    IN  ClassHostObject(template.name, FALSE, superclass,
            HashMapFromPairs([i \in 1..Len(list) |-> sels[list[i][1]]],
                             [i \in 1..Len(list) |-> list[i][2]]))

\* ClassHostObject::from_template.
from_template(template, is_metaclass, superclass, sels) ==
    LET list == TemplateMethodList(template, is_metaclass)
    IN  ClassHostObject(template.name, is_metaclass, superclass,
            HashMapFromPairs([i \in 1..Len(list) |-> sels[list[i][1]]],
                             [i \in 1..Len(list) |-> list[i][2]]))

RECURSIVE RegisterAll(_, _)
\* The selectors after interning every name of a binary method list.
RegisterAll(sels, list) ==
    IF list = <<>>
    THEN sels
    ELSE RegisterAll(register_selector(sels, Head(list)[1]), Tail(list))

\* ClassHostObject::add_methods_from_bin: each method of the list is
\* inserted under its selector, which is interned on demand.
add_methods_from_bin(methods, list, sels) ==
    LET sels2 == RegisterAll(sels, list)
    IN  HashMapExtend(methods,
            HashMapFromPairs([i \in 1..Len(list) |-> sels2[list[i][1]]],
                             [i \in 1..Len(list) |-> list[i][2]]))

\* ClassHostObject::from_bin: name and superclass are read from guest
\* memory, the methods from base_methods when it is not null.
from_bin(class, is_metaclass, sels) ==
    LET data == BinClassRec[class]
    IN  ClassHostObject(data.name, is_metaclass, data.superclass,
            IF data.base_methods # <<>>
            THEN add_methods_from_bin(EmptyMethods, data.base_methods, sels)
            ELSE EmptyMethods)

\* The selectors after from_bin(class, ...).
from_bin_selectors(class, sels) == RegisterAll(sels, BinClassRec[class].base_methods)

(***************************************************************************)
(* State.                                                                  *)
(***************************************************************************)
VARIABLES
    catalog,    \* CLASS_LISTS: the templates of this build (never changes)
    classes,    \* ObjC::classes: name -> class
    objects,    \* the host object registered for each guest object
    isa,        \* guest memory: the isa field of each guest object
    nextAddr,   \* the address the next allocated guest object gets
    selectors,  \* ObjC::selectors: method name -> SEL
    stack,      \* the frames of link_class_inner, innermost last
    loop,       \* the list and index of a running register_bin_* loop
    status,     \* "idle", "linking", "classes", "categories" or "aborted"
    fault,      \* why the process aborted
    lastCall,   \* the last call made to the public interface
    ret,        \* what the last completed link_class/get_known_class returned
    rets,       \* history: every reference returned for (name, is_metaclass)
    binAddr,    \* history: the address of the last binary class ingested per name
    pre,        \* history: registry and allocations when the running call was made
    visible_windows,        \* uikit.ui_window.visible_windows, top window last
    fullscreen_eagl_layer,  \* what find_fullscreen_eagl_layer(env) finds, or nil
    now,                    \* what Instant::now() reads, in nanoseconds
    recomposite_next,       \* composition::State::recomposite_next
    texture_framebuffer,    \* composition::State::texture_framebuffer
    result,                 \* what the last recomposite_if_necessary returned
    presented,              \* whether the last recomposite_if_necessary drew a frame
    clip_to,                \* composite_layer_recursive: the clip rectangle passed in
    absolute_frame,         \* composite_layer_recursive: the frame of the layer
    absolute_frame_clipped  \* composite_layer_recursive: clip_rects of the two

\* The state of the class registry and of its callers.
objcVars == <<catalog, classes, objects, isa, nextAddr, selectors, stack, loop,
              status, fault, lastCall, ret, rets, binAddr, pre>>

\* The state recomposite_if_necessary reads and writes.
compVars == <<visible_windows, fullscreen_eagl_layer, now, recomposite_next,
              texture_framebuffer, result, presented>>

\* The locals of composite_layer_recursive around its call of clip_rects.
clipVars == <<clip_to, absolute_frame, absolute_frame_clipped>>

vars == <<catalog, classes, objects, isa, nextAddr, selectors, stack, loop,
          status, fault, lastCall, ret, rets, binAddr, pre,
          visible_windows, fullscreen_eagl_layer, now, recomposite_next,
          texture_framebuffer, result, presented,
          clip_to, absolute_frame, absolute_frame_clipped>>

\* Guest objects allocated by alloc_static_object so far.
Allocated == 1..(nextAddr - 1)

\* A call of the public interface; known: whether the name was in the
\* registry when the call was made.
Call(op, name, is_metaclass, known) ==
    [op |-> op, name |-> name, is_metaclass |-> is_metaclass, known |-> known]

NoLoop == [words |-> <<>>, i |-> 0, n |-> 0]

\* The registry and the next address as a call of the public interface
\* finds them; NoSnapshot while no call is running.
Snapshot == [classes |-> classes, nextAddr |-> nextAddr]
NoSnapshot == [classes |-> [n \in {} |-> nil], nextAddr |-> nil]

Init ==
    /\ catalog \in Catalogs
    /\ classes = [n \in {} |-> nil]
    /\ objects = [a \in {} |-> NoObject]
    /\ isa = [a \in BinClassAddrs |-> BinClassRec[a].isa]
    /\ nextAddr = 1
    /\ selectors \in {EmptySelectors, register_host_selectors(catalog)}
    /\ stack = <<>>
    /\ loop = NoLoop
    /\ status = "idle"
    /\ fault = "none"
    /\ lastCall = Call("none", NoName, FALSE, FALSE)
    /\ ret = nil
    /\ rets = [k \in Names \X BOOLEAN |-> {}]
    /\ binAddr = [n \in Names |-> nil]
    /\ pre = NoSnapshot
    /\ visible_windows = <<>>
    /\ fullscreen_eagl_layer = nil
    /\ now = 0
    /\ recomposite_next = None
    /\ texture_framebuffer = None
    /\ result = None
    /\ presented = FALSE
    /\ clip_to = NoRect
    /\ absolute_frame = NoRect
    /\ absolute_frame_clipped = NoRect

(***************************************************************************)
(* Collaborators of the class registry (objc/objects.rs).                  *)
(***************************************************************************)
\* ObjC::read_isa.
read_isa(object) == isa[object]

\* ObjC::write_isa.
write_isa(object, new_isa) == isa' = [isa EXCEPT ![object] = new_isa]

\* ObjC::alloc_static_object(isa, host_object, mem): a new guest object with
\* that isa, for which the host object is registered; returns nextAddr.
alloc_static_object(new_isa, host_object) ==
    /\ isa' = isa @@ (nextAddr :> new_isa)
    /\ objects' = objects @@ (nextAddr :> host_object)
    /\ nextAddr' = nextAddr + 1

\* ObjC::register_static_object(object, host_object) for two objects.
register_static_objects(object1, host_object1, object2, host_object2) ==
    objects' = [a \in DOMAIN objects \cup {object1, object2} |->
                   IF a = object2 THEN host_object2
                   ELSE IF a = object1 THEN host_object1
                   ELSE objects[a]]

\* A panic (failed assert!, panic!, missing HashMap key) or a stack overflow
\* ends the process.
Abort(why) ==
    /\ status' = "aborted"
    /\ fault' = why

(***************************************************************************)
(* ObjC::get_class.                                                        *)
(***************************************************************************)
\* get_class that never finds the name.
get_class_found_Never(name) == FALSE

\* self.classes.get(name) is Some.
get_class_found(name) == name \in DOMAIN classes

\* get_class that forgets to follow the isa for a metaclass.
get_class_IgnoreFlag(name, is_metaclass) == classes[name]

get_class(name, is_metaclass) ==
    IF is_metaclass THEN read_isa(classes[name]) ELSE classes[name]

(***************************************************************************)
(* ObjC::link_class_inner, one frame per activation.                       *)
(***************************************************************************)
Frame(name, is_metaclass, use_placeholder) ==
    [name |-> name, is_metaclass |-> is_metaclass,
     use_placeholder |-> use_placeholder, pc |-> "start",
     sup |-> nil, class_host_object |-> NoObject,
     metaclass_host_object |-> NoObject, metaclass |-> nil]

Top == stack[Len(stack)]

SetTop(f) == stack' = [stack EXCEPT ![Len(stack)] = f]

Linking == status = "linking" /\ stack # <<>>

\* The innermost activation returns v: to the activation that called it,
\* which goes on to build the host object it wanted the superclass for, or
\* to the caller of link_class/get_known_class.
Return(v) ==
    IF Len(stack) = 1
    THEN /\ stack' = <<>>
         /\ status' = "idle"
         /\ ret' = v
         /\ rets' = [rets EXCEPT ![<<lastCall.name, lastCall.is_metaclass>>] = @ \cup {v}]
         /\ pre' = NoSnapshot
    ELSE /\ stack' = [SubSeq(stack, 1, Len(stack) - 1) EXCEPT ![Len(stack) - 1] =
                         [@ EXCEPT !.sup = v,
                                   !.pc = IF @ = "class_super_call"
                                          THEN "class_obj" ELSE "meta_obj"]]
         /\ UNCHANGED <<status, ret, rets, pre>>

\* link_class(name, is_metaclass) is called.
CallLink(name, is_metaclass) ==
    /\ status = "idle"
    /\ status' = "linking"
    /\ stack' = <<Frame(name, is_metaclass, TRUE)>>
    /\ lastCall' = Call("link_class", name, is_metaclass, name \in DOMAIN classes)
    /\ pre' = Snapshot
    /\ UNCHANGED <<compVars, clipVars, catalog, classes, objects, isa, nextAddr, selectors, loop,
                   fault, ret, rets, binAddr>>

\* get_known_class(name) is called.
CallGetKnown(name) ==
    /\ status = "idle"
    /\ status' = "linking"
    /\ stack' = <<Frame(name, FALSE, FALSE)>>
    /\ lastCall' = Call("get_known_class", name, FALSE, name \in DOMAIN classes)
    /\ pre' = Snapshot
    /\ UNCHANGED <<compVars, clipVars, catalog, classes, objects, isa, nextAddr, selectors, loop,
                   fault, ret, rets, binAddr>>

\* The name is in the registry: return the class or, through its isa, the
\* metaclass.
LinkHit ==
    /\ Linking
    /\ Top.pc = "start"
    /\ get_class_found(Top.name)
    /\ Return(get_class(Top.name, Top.is_metaclass))
    /\ UNCHANGED <<compVars, clipVars, catalog, classes, objects, isa, nextAddr, selectors, loop,
                   fault, lastCall, binAddr>>

\* LinkTemplate without the assert! on the superclass's template.
LinkTemplate_NoAssert ==
    /\ Linking
    /\ Top.pc = "start"
    /\ ~get_class_found(Top.name)
    /\ HasTemplate(catalog, Top.name)
    /\ SetTop([Top EXCEPT !.pc = "class_super"])
    /\ UNCHANGED <<compVars, clipVars, catalog, pre, classes, objects, isa, nextAddr, selectors, loop,
                   status, fault, lastCall, ret, rets, binAddr>>

\* LinkTemplate whose assert! looks for the template of the name itself.
LinkTemplate_AssertsOwnTemplate ==
    /\ Linking
    /\ Top.pc = "start"
    /\ ~get_class_found(Top.name)
    /\ HasTemplate(catalog, Top.name)
    /\ LET template == find_template(catalog, Top.name)
       IN  IF template.superclass # NoName /\ ~HasTemplate(catalog, template.name)
           THEN Abort("superclass has no template") /\ UNCHANGED stack
           ELSE SetTop([Top EXCEPT !.pc = "class_super"]) /\ UNCHANGED <<status, fault>>
    /\ UNCHANGED <<compVars, clipVars, catalog, pre, classes, objects, isa, nextAddr, selectors, loop,
                   lastCall, ret, rets, binAddr>>

\* There is a template: its superclass, if any, must have one too.
LinkTemplate ==
    /\ Linking
    /\ Top.pc = "start"
    /\ ~get_class_found(Top.name)
    /\ HasTemplate(catalog, Top.name)
    /\ LET template == find_template(catalog, Top.name)
       IN  IF template.superclass # NoName /\ ~HasTemplate(catalog, template.superclass)
           THEN Abort("superclass has no template") /\ UNCHANGED stack
           ELSE SetTop([Top EXCEPT !.pc = "class_super"]) /\ UNCHANGED <<status, fault>>
    /\ UNCHANGED <<compVars, clipVars, catalog, pre, classes, objects, isa, nextAddr, selectors, loop,
                   lastCall, ret, rets, binAddr>>

\* LinkPlaceholder with the is_metaclass flags of the placeholders swapped.
LinkPlaceholder_SwappedFlags ==
    /\ Linking
    /\ Top.pc = "start"
    /\ ~get_class_found(Top.name)
    /\ ~HasTemplate(catalog, Top.name)
    /\ IF ~Top.use_placeholder
       THEN Abort("missing implementation") /\ UNCHANGED stack
       ELSE /\ SetTop([Top EXCEPT
                   !.class_host_object = UnimplementedClass(Top.name, TRUE),
                   !.metaclass_host_object = UnimplementedClass(Top.name, FALSE),
                   !.pc = "alloc_meta"])
            /\ UNCHANGED <<status, fault>>
    /\ UNCHANGED <<compVars, clipVars, catalog, pre, classes, objects, isa, nextAddr, selectors, loop,
                   lastCall, ret, rets, binAddr>>

\* There is no template: panic, or use placeholders for both objects.
LinkPlaceholder ==
    /\ Linking
    /\ Top.pc = "start"
    /\ ~get_class_found(Top.name)
    /\ ~HasTemplate(catalog, Top.name)
    /\ IF ~Top.use_placeholder
       THEN Abort("missing implementation") /\ UNCHANGED stack
       ELSE /\ SetTop([Top EXCEPT
                   !.class_host_object = UnimplementedClass(Top.name, FALSE),
                   !.metaclass_host_object = UnimplementedClass(Top.name, TRUE),
                   !.pc = "alloc_meta"])
            /\ UNCHANGED <<status, fault>>
    /\ UNCHANGED <<compVars, clipVars, catalog, pre, classes, objects, isa, nextAddr, selectors, loop,
                   lastCall, ret, rets, binAddr>>

\* template.superclass.map(|name| self.link_class(name, is_metaclass, mem))
\*     .unwrap_or(nil), for the host object on the `side` ("class", "meta").
LinkSuperclass(side, is_metaclass) ==
    /\ Linking
    /\ Top.pc = side \o "_super"
    /\ LET template == find_template(catalog, Top.name)
       IN  IF template.superclass = NoName
           THEN /\ SetTop([Top EXCEPT !.sup = nil, !.pc = side \o "_obj"])
                /\ UNCHANGED <<status, fault>>
           ELSE IF Len(stack) >= MaxDepth
           THEN Abort("stack overflow") /\ UNCHANGED stack
           ELSE /\ stack' = Append([stack EXCEPT ![Len(stack)].pc = side \o "_super_call"],
                                   Frame(template.superclass, is_metaclass, TRUE))
                /\ UNCHANGED <<status, fault>>
    /\ UNCHANGED <<compVars, clipVars, catalog, pre, classes, objects, isa, nextAddr, selectors, loop,
                   lastCall, ret, rets, binAddr>>

\* LinkClassSuperclass that links the name of the template itself.
LinkClassSuperclass_OwnName ==
    /\ Linking
    /\ Top.pc = "class_super"
    /\ LET template == find_template(catalog, Top.name)
       IN  IF template.superclass = NoName
           THEN /\ SetTop([Top EXCEPT !.sup = nil, !.pc = "class_obj"])
                /\ UNCHANGED <<status, fault>>
           ELSE IF Len(stack) >= MaxDepth
           THEN Abort("stack overflow") /\ UNCHANGED stack
           ELSE /\ stack' = Append([stack EXCEPT ![Len(stack)].pc = "class_super_call"],
                                   Frame(template.name, FALSE, TRUE))
                /\ UNCHANGED <<status, fault>>
    /\ UNCHANGED <<compVars, clipVars, catalog, pre, classes, objects, isa, nextAddr, selectors, loop,
                   lastCall, ret, rets, binAddr>>

\* The superclass of the class host object is link_class(superclass, false).
LinkClassSuperclass == LinkSuperclass("class", FALSE)

\* LinkMetaclassSuperclass that links the superclass's class, not its
\* metaclass.
LinkMetaclassSuperclass_ClassSide == LinkSuperclass("meta", FALSE)

\* The superclass of the metaclass host object is link_class(superclass, true).
LinkMetaclassSuperclass == LinkSuperclass("meta", TRUE)

\* LinkClassObject that leaves out the methods when a selector is missing.
LinkClassObject_SkipsUnregistered ==
    /\ Linking
    /\ Top.pc = "class_obj"
    /\ LET template == find_template(catalog, Top.name)
       IN  /\ SetTop([Top EXCEPT
                   !.class_host_object =
                       IF FromTemplatePanics(template, FALSE, selectors)
                       THEN ClassHostObject(template.name, FALSE, Top.sup, EmptyMethods)
                       ELSE from_template(template, FALSE, Top.sup, selectors),
                   !.pc = "meta_super"])
           /\ UNCHANGED <<status, fault>>
    /\ UNCHANGED <<compVars, clipVars, catalog, pre, classes, objects, isa, nextAddr, selectors, loop,
                   lastCall, ret, rets, binAddr>>

\* class_host_object = ClassHostObject::from_template(template, false, ..).
LinkClassObject ==
    /\ Linking
    /\ Top.pc = "class_obj"
    /\ LET template == find_template(catalog, Top.name)
       IN  IF FromTemplatePanics(template, FALSE, selectors)
           THEN Abort("unregistered selector") /\ UNCHANGED stack
           ELSE /\ SetTop([Top EXCEPT
                       !.class_host_object =
                           from_template(template, FALSE, Top.sup, selectors),
                       !.pc = "meta_super"])
                /\ UNCHANGED <<status, fault>>
    /\ UNCHANGED <<compVars, clipVars, catalog, pre, classes, objects, isa, nextAddr, selectors, loop,
                   lastCall, ret, rets, binAddr>>

\* metaclass_host_object = ClassHostObject::from_template(template, true, ..).
LinkMetaclassObject ==
    /\ Linking
    /\ Top.pc = "meta_obj"
    /\ LET template == find_template(catalog, Top.name)
       IN  IF FromTemplatePanics(template, TRUE, selectors)
           THEN Abort("unregistered selector") /\ UNCHANGED stack
           ELSE /\ SetTop([Top EXCEPT
                       !.metaclass_host_object =
                           from_template(template, TRUE, Top.sup, selectors),
                       !.pc = "alloc_meta"])
                /\ UNCHANGED <<status, fault>>
    /\ UNCHANGED <<compVars, clipVars, catalog, pre, classes, objects, isa, nextAddr, selectors, loop,
                   lastCall, ret, rets, binAddr>>

\* let metaclass = self.alloc_static_object(nil, metaclass_host_object, mem);
LinkAllocMetaclass ==
    /\ Linking
    /\ Top.pc = "alloc_meta"
    /\ alloc_static_object(nil, Top.metaclass_host_object)
    /\ SetTop([Top EXCEPT !.metaclass = nextAddr, !.pc = "write_isa"])
    /\ UNCHANGED <<compVars, clipVars, catalog, pre, classes, selectors, loop, status, fault,
                   lastCall, ret, rets, binAddr>>

\* LinkWriteIsa without the write: the metaclass keeps its nil isa.
LinkWriteIsa_Skipped ==
    /\ Linking
    /\ Top.pc = "write_isa"
    /\ SetTop([Top EXCEPT !.pc = "alloc_class"])
    /\ UNCHANGED <<compVars, clipVars, catalog, pre, classes, objects, isa, nextAddr, selectors, loop,
                   status, fault, lastCall, ret, rets, binAddr>>

\* Self::write_isa(metaclass, metaclass, mem);
LinkWriteIsa ==
    /\ Linking
    /\ Top.pc = "write_isa"
    /\ write_isa(Top.metaclass, Top.metaclass)
    /\ SetTop([Top EXCEPT !.pc = "alloc_class"])
    /\ UNCHANGED <<compVars, clipVars, catalog, pre, classes, objects, nextAddr, selectors, loop, status, fault, lastCall, ret, rets, binAddr>>

\* LinkAllocClass that returns the class whatever is_metaclass says.
LinkAllocClass_ReturnClass ==
    /\ Linking
    /\ Top.pc = "alloc_class"
    /\ alloc_static_object(Top.metaclass, Top.class_host_object)
    /\ classes' = [n \in DOMAIN classes \cup {Top.name} |->
                      IF n = Top.name THEN nextAddr ELSE classes[n]]
    /\ Return(nextAddr)
    /\ UNCHANGED <<compVars, clipVars, catalog, selectors, loop, fault, lastCall, binAddr>>

\* let class = self.alloc_static_object(metaclass, class_host_object, mem);
\* self.classes.insert(name.to_string(), class);
\* and the class or the metaclass is returned.
LinkAllocClass ==
    /\ Linking
    /\ Top.pc = "alloc_class"
    /\ alloc_static_object(Top.metaclass, Top.class_host_object)
    /\ classes' = [n \in DOMAIN classes \cup {Top.name} |->
                      IF n = Top.name THEN nextAddr ELSE classes[n]]
    /\ Return(IF Top.is_metaclass THEN Top.metaclass ELSE nextAddr)
    /\ UNCHANGED <<compVars, clipVars, catalog, selectors, loop, fault, lastCall, binAddr>>

NextLink ==
    \/ \E name \in Names, is_metaclass \in BOOLEAN : CallLink(name, is_metaclass)
    \/ \E name \in Names : CallGetKnown(name)
    \/ LinkHit
    \/ LinkTemplate
    \/ LinkPlaceholder
    \/ LinkClassSuperclass
    \/ LinkMetaclassSuperclass
    \/ LinkClassObject
    \/ LinkMetaclassObject
    \/ LinkAllocMetaclass
    \/ LinkWriteIsa
    \/ LinkAllocClass

\* Only link_class and get_known_class are called.
SpecLink == Init /\ [][NextLink]_vars

\* The statements of link_class_inner: once called it runs, statement after
\* statement, until it returns or the process aborts.
LinkStep ==
    \/ LinkHit
    \/ LinkTemplate
    \/ LinkPlaceholder
    \/ LinkClassSuperclass
    \/ LinkMetaclassSuperclass
    \/ LinkClassObject
    \/ LinkMetaclassObject
    \/ LinkAllocMetaclass
    \/ LinkWriteIsa
    \/ LinkAllocClass

\* SpecLink in which a running link_class_inner is not suspended for ever.
SpecLinkFair == SpecLink /\ WF_vars(LinkStep)

(***************************************************************************)
(* ObjC::register_bin_classes.                                             *)
(***************************************************************************)
\* CallRegisterBinClasses without the assert!(list.size % 4 == 0).
CallRegisterBinClasses_NoAssert(bin) ==
    /\ status = "idle"
    /\ lastCall' = Call("register_bin_classes", NoName, FALSE, FALSE)
    /\ LET list == bin.objc_classlist
       IN  IF ~list.present
           THEN UNCHANGED <<status, fault, loop>>
           ELSE /\ status' = "classes"
                /\ loop' = [words |-> list.words, i |-> 0, n |-> list.size \div 4]
                /\ UNCHANGED fault
    /\ pre' = IF bin.objc_classlist.present THEN Snapshot ELSE NoSnapshot
    /\ UNCHANGED <<compVars, clipVars, catalog, classes, objects, isa, nextAddr, selectors, stack,
                   ret, rets, binAddr>>

\* register_bin_classes(bin, mem) is called: without the section it returns
\* at once, a size that is no multiple of 4 fails the assert!, otherwise
\* the loop over the list.size / 4 entries starts.
CallRegisterBinClasses(bin) ==
    /\ status = "idle"
    /\ lastCall' = Call("register_bin_classes", NoName, FALSE, FALSE)
    /\ LET list == bin.objc_classlist
       IN  IF ~list.present
           THEN UNCHANGED <<status, fault, loop>>
           ELSE IF list.size % 4 # 0
           THEN Abort("section size") /\ UNCHANGED loop
           ELSE /\ status' = "classes"
                /\ loop' = [words |-> list.words, i |-> 0, n |-> list.size \div 4]
                /\ UNCHANGED fault
    /\ pre' = IF bin.objc_classlist.present THEN Snapshot ELSE NoSnapshot
    /\ UNCHANGED <<compVars, clipVars, catalog, classes, objects, isa, nextAddr, selectors, stack,
                   ret, rets, binAddr>>

\* RegisterBinClass that inserts the registry entry before it compares the
\* two names.
RegisterBinClass_InsertBeforeAssert ==
    /\ status = "classes"
    /\ loop.i < loop.n
    /\ LET class == loop.words[loop.i + 1]
           metaclass == read_isa(class)
           class_host_object == from_bin(class, FALSE, selectors)
           selectors1 == from_bin_selectors(class, selectors)
           metaclass_host_object == from_bin(metaclass, TRUE, selectors1)
           selectors2 == from_bin_selectors(metaclass, selectors1)
           name == class_host_object.name
       IN  /\ selectors' = selectors2
           /\ classes' = [n \in DOMAIN classes \cup {name} |->
                             IF n = name THEN class ELSE classes[n]]
           /\ IF class_host_object.name # metaclass_host_object.name
              THEN /\ Abort("class and metaclass names differ")
                   /\ UNCHANGED <<objects, loop, binAddr>>
              ELSE /\ register_static_objects(class, class_host_object,
                                              metaclass, metaclass_host_object)
                   /\ loop' = [loop EXCEPT !.i = @ + 1]
                   /\ binAddr' = [binAddr EXCEPT ![name] = class]
                   /\ UNCHANGED <<status, fault>>
    /\ UNCHANGED <<compVars, clipVars, catalog, pre, isa, nextAddr, stack, lastCall, ret, rets>>

\* RegisterBinClass without the assert! on the two names.
RegisterBinClass_NoNameAssert ==
    /\ status = "classes"
    /\ loop.i < loop.n
    /\ LET class == loop.words[loop.i + 1]
           metaclass == read_isa(class)
           class_host_object == from_bin(class, FALSE, selectors)
           selectors1 == from_bin_selectors(class, selectors)
           metaclass_host_object == from_bin(metaclass, TRUE, selectors1)
           selectors2 == from_bin_selectors(metaclass, selectors1)
           name == class_host_object.name
       IN  /\ selectors' = selectors2
           /\ register_static_objects(class, class_host_object,
                                      metaclass, metaclass_host_object)
           /\ classes' = [n \in DOMAIN classes \cup {name} |->
                             IF n = name THEN class ELSE classes[n]]
           /\ loop' = [loop EXCEPT !.i = @ + 1]
           /\ binAddr' = [binAddr EXCEPT ![name] = class]
           /\ UNCHANGED <<status, fault>>
    /\ UNCHANGED <<compVars, clipVars, catalog, pre, isa, nextAddr, stack, lastCall, ret, rets>>

\* RegisterBinClass that starts a new registry with each entry.
RegisterBinClass_ResetsRegistry ==
    /\ status = "classes"
    /\ loop.i < loop.n
    /\ LET class == loop.words[loop.i + 1]
           metaclass == read_isa(class)
           class_host_object == from_bin(class, FALSE, selectors)
           selectors1 == from_bin_selectors(class, selectors)
           metaclass_host_object == from_bin(metaclass, TRUE, selectors1)
           selectors2 == from_bin_selectors(metaclass, selectors1)
           name == class_host_object.name
       IN  /\ selectors' = selectors2
           /\ IF class_host_object.name # metaclass_host_object.name
              THEN /\ Abort("class and metaclass names differ")
                   /\ UNCHANGED <<classes, objects, loop, binAddr>>
              ELSE /\ register_static_objects(class, class_host_object,
                                              metaclass, metaclass_host_object)
                   /\ classes' = (name :> class)
                   /\ loop' = [loop EXCEPT !.i = @ + 1]
                   /\ binAddr' = [binAddr EXCEPT ![name] = class]
                   /\ UNCHANGED <<status, fault>>
    /\ UNCHANGED <<compVars, clipVars, catalog, pre, isa, nextAddr, stack, lastCall, ret, rets>>

\* RegisterBinClass that keeps a registry entry the name already has.
RegisterBinClass_KeepExisting ==
    /\ status = "classes"
    /\ loop.i < loop.n
    /\ LET class == loop.words[loop.i + 1]
           metaclass == read_isa(class)
           class_host_object == from_bin(class, FALSE, selectors)
           selectors1 == from_bin_selectors(class, selectors)
           metaclass_host_object == from_bin(metaclass, TRUE, selectors1)
           selectors2 == from_bin_selectors(metaclass, selectors1)
           name == class_host_object.name
       IN  /\ selectors' = selectors2
           /\ IF class_host_object.name # metaclass_host_object.name
              THEN /\ Abort("class and metaclass names differ")
                   /\ UNCHANGED <<classes, objects, loop, binAddr>>
              ELSE /\ register_static_objects(class, class_host_object,
                                              metaclass, metaclass_host_object)
                   /\ classes' = [n \in DOMAIN classes \cup {name} |->
                                     IF n \in DOMAIN classes THEN classes[n] ELSE class]
                   /\ loop' = [loop EXCEPT !.i = @ + 1]
                   /\ binAddr' = [binAddr EXCEPT ![name] = class]
                   /\ UNCHANGED <<status, fault>>
    /\ UNCHANGED <<compVars, clipVars, catalog, pre, isa, nextAddr, stack, lastCall, ret, rets>>

\* One iteration of the loop: both host objects are built from guest
\* memory, their names must agree, then both are registered and the name
\* is inserted into the registry.
RegisterBinClass ==
    /\ status = "classes"
    /\ loop.i < loop.n
    /\ LET class == loop.words[loop.i + 1]
           metaclass == read_isa(class)
           class_host_object == from_bin(class, FALSE, selectors)
           selectors1 == from_bin_selectors(class, selectors)
           metaclass_host_object == from_bin(metaclass, TRUE, selectors1)
           selectors2 == from_bin_selectors(metaclass, selectors1)
           name == class_host_object.name
       IN  /\ selectors' = selectors2
           /\ IF class_host_object.name # metaclass_host_object.name
              THEN /\ Abort("class and metaclass names differ")
                   /\ UNCHANGED <<classes, objects, loop, binAddr>>
              ELSE /\ register_static_objects(class, class_host_object,
                                              metaclass, metaclass_host_object)
                   /\ classes' = [n \in DOMAIN classes \cup {name} |->
                                     IF n = name THEN class ELSE classes[n]]
                   /\ loop' = [loop EXCEPT !.i = @ + 1]
                   /\ binAddr' = [binAddr EXCEPT ![name] = class]
                   /\ UNCHANGED <<status, fault>>
    /\ UNCHANGED <<compVars, clipVars, catalog, pre, isa, nextAddr, stack, lastCall, ret, rets>>

\* The loop is over: register_bin_classes returns.
RegisterBinClassesDone ==
    /\ status = "classes"
    /\ loop.i = loop.n
    /\ status' = "idle"
    /\ loop' = NoLoop
    /\ pre' = NoSnapshot
    /\ UNCHANGED <<compVars, clipVars, catalog, classes, objects, isa, nextAddr, selectors, stack,
                   fault, lastCall, ret, rets, binAddr>>

(***************************************************************************)
(* ObjC::register_bin_categories.                                          *)
(***************************************************************************)
\* CallRegisterBinCategories that takes a missing section for an error.
CallRegisterBinCategories_AbsentIsError(bin) ==
    /\ status = "idle"
    /\ lastCall' = Call("register_bin_categories", NoName, FALSE, FALSE)
    /\ LET list == bin.objc_catlist
       IN  IF ~list.present \/ list.size % 4 # 0
           THEN Abort("section size") /\ UNCHANGED loop
           ELSE /\ status' = "categories"
                /\ loop' = [words |-> list.words, i |-> 0, n |-> list.size \div 4]
                /\ UNCHANGED fault
    /\ pre' = IF bin.objc_catlist.present THEN Snapshot ELSE NoSnapshot
    /\ UNCHANGED <<compVars, clipVars, catalog, classes, objects, isa, nextAddr, selectors, stack,
                   ret, rets, binAddr>>

\* register_bin_categories(bin, mem) is called.
CallRegisterBinCategories(bin) ==
    /\ status = "idle"
    /\ lastCall' = Call("register_bin_categories", NoName, FALSE, FALSE)
    /\ LET list == bin.objc_catlist
       IN  IF ~list.present
           THEN UNCHANGED <<status, fault, loop>>
           ELSE IF list.size % 4 # 0
           THEN Abort("section size") /\ UNCHANGED loop
           ELSE /\ status' = "categories"
                /\ loop' = [words |-> list.words, i |-> 0, n |-> list.size \div 4]
                /\ UNCHANGED fault
    /\ pre' = IF bin.objc_catlist.present THEN Snapshot ELSE NoSnapshot
    /\ UNCHANGED <<compVars, clipVars, catalog, classes, objects, isa, nextAddr, selectors, stack,
                   ret, rets, binAddr>>

\* One iteration of the loop: the category_t at loop.words[loop.i + 1] is
\* read and a TODO is logged; its methods are not added to any class.
RegisterBinCategory ==
    /\ status = "categories"
    /\ loop.i < loop.n
    /\ loop' = [loop EXCEPT !.i = @ + 1]
    /\ UNCHANGED <<compVars, clipVars, catalog, pre, classes, objects, isa, nextAddr, selectors, stack,
                   status, fault, lastCall, ret, rets, binAddr>>

\* The loop is over: register_bin_categories returns.
RegisterBinCategoriesDone ==
    /\ status = "categories"
    /\ loop.i = loop.n
    /\ status' = "idle"
    /\ loop' = NoLoop
    /\ pre' = NoSnapshot
    /\ UNCHANGED <<compVars, clipVars, catalog, classes, objects, isa, nextAddr, selectors, stack,
                   fault, lastCall, ret, rets, binAddr>>

NextBin ==
    \/ \E bin \in Binaries : CallRegisterBinClasses(bin)
    \/ RegisterBinClass
    \/ RegisterBinClassesDone
    \/ \E bin \in Binaries : CallRegisterBinCategories(bin)
    \/ RegisterBinCategory
    \/ RegisterBinCategoriesDone

Next == NextLink \/ NextBin

\* Any sequence of calls to the four public operations.
Spec == Init /\ [][Next]_vars

(***************************************************************************)
(* Properties.                                                             *)
(***************************************************************************)
\* Every reference link_class/get_known_class has returned so far.
Returned == UNION { rets[k] : k \in Names \X BOOLEAN }

\* C1: for a name with a template, whatever the order of the calls, the isa
\* of every reference link_class(n, false) returned is the reference
\* link_class(n, true) returned, and both host objects carry the name n.
C1_ClassAndMetaclassAgree ==
    \A n \in DOMAIN catalog :
        \A c \in rets[<<n, FALSE>>], m \in rets[<<n, TRUE>>] :
            /\ read_isa(c) = m
            /\ objects[c].name = n
            /\ objects[m].name = n

\* Both link_class(n, false) and link_class(n, true) have returned for a
\* name with a template, and other names were linked too.
C1_Witness ==
    \E n \in DOMAIN catalog :
        /\ rets[<<n, FALSE>>] # {}
        /\ rets[<<n, TRUE>>] # {}
        /\ status = "idle"
        /\ lastCall = Call("link_class", n, FALSE, TRUE)
        /\ \E o \in Names \ {n} : rets[<<o, TRUE>>] # {}

\* C2: two calls of link_class with the same name and flag return the same
\* reference, whatever link_class/get_known_class calls lie between them.
C2_LinkReturnsSameReference ==
    \A k \in Names \X BOOLEAN : Cardinality(rets[k]) <= 1

\* link_class(n, true) has returned a second time, after the class and
\* every other name were linked.
C2_Witness ==
    /\ status = "idle"
    /\ lastCall.op = "link_class"
    /\ lastCall.is_metaclass
    /\ lastCall.known
    /\ \A k \in Names \X BOOLEAN : rets[k] # {}

\* C3: link_class of a name that has no template and is not in the registry
\* does not abort; it returns an UnimplementedClass with that name and the
\* requested is_metaclass, and the name is in the registry afterwards.
C3_LinkWithoutTemplateGivesPlaceholder ==
    (/\ lastCall.op = "link_class"
     /\ ~HasTemplate(catalog, lastCall.name)
     /\ ~lastCall.known)
    => /\ status # "aborted"
       /\ status = "idle" =>
            /\ ret \in DOMAIN objects
            /\ objects[ret] = UnimplementedClass(lastCall.name, lastCall.is_metaclass)
            /\ get_class_found(lastCall.name)
            /\ get_class(lastCall.name, lastCall.is_metaclass) = ret

\* link_class(n, true) has returned for an unregistered name without a
\* template.
C3_Witness ==
    /\ status = "idle"
    /\ lastCall.op = "link_class"
    /\ ~HasTemplate(catalog, lastCall.name)
    /\ ~lastCall.known
    /\ lastCall.is_metaclass
    /\ objects[ret].kind = "unimplemented"

\* C4: get_known_class never returns a reference to an UnimplementedClass:
\* for a name without a template it aborts.
C4_GetKnownNeverReturnsPlaceholder ==
    (status = "idle" /\ lastCall.op = "get_known_class")
    => objects[ret].kind # "unimplemented"

\* C5: a metaclass made by link_class_inner has itself as isa once its name
\* is in the registry or a reference to the pair was returned; the only
\* object whose isa is nil is the metaclass allocated last, while the frame
\* that allocated it is about to patch it; the class is allocated after its
\* metaclass, and the name is recorded only with the class.
C5_MetaclassIsaIsItself ==
    /\ \A n \in DOMAIN classes :
          classes[n] \in Allocated =>
              /\ read_isa(classes[n]) \in Allocated
              /\ read_isa(classes[n]) < classes[n]
              /\ read_isa(read_isa(classes[n])) = read_isa(classes[n])
    /\ \A r \in Returned \cap Allocated :
          IF objects[r].is_metaclass
          THEN read_isa(r) = r
          ELSE read_isa(r) \in Allocated /\ read_isa(read_isa(r)) = read_isa(r)
    /\ \A r \in Allocated :
          read_isa(r) = nil =>
              /\ Linking
              /\ Top.pc = "write_isa"
              /\ Top.metaclass = r
              /\ r = nextAddr - 1
              /\ r \notin Returned
              /\ \A n \in DOMAIN classes : r \notin {classes[n], read_isa(classes[n])}

\* A pair made from a template and a pair of placeholders are both in the
\* registry, and a metaclass of each kind has been returned.
C5_Witness ==
    /\ status = "idle"
    /\ \E n \in DOMAIN classes :
          /\ classes[n] \in Allocated
          /\ objects[classes[n]].kind = "class"
          /\ read_isa(classes[n]) \in Returned
    /\ \E n \in DOMAIN classes :
          /\ classes[n] \in Allocated
          /\ objects[classes[n]].kind = "unimplemented"
          /\ read_isa(classes[n]) \in Returned

\* C6: for a template whose superclass has a template, the superclass of
\* the class link_class returned is the class link_class returns for the
\* superclass, the isa of that class is the metaclass link_class returns for
\* the superclass, and that metaclass is the superclass of the metaclass
\* returned; without a declared superclass both superclasses are nil.
C6_SuperclassChain ==
    \A child \in DOMAIN catalog :
        LET parent == find_template(catalog, child).superclass
            SuperOK(r, is_metaclass) ==
                IF parent = NoName
                THEN objects[r].superclass = nil
                ELSE HasTemplate(catalog, parent) =>
                        /\ get_class_found(parent)
                        /\ objects[r].superclass = get_class(parent, is_metaclass)
                        /\ objects[r].superclass \in DOMAIN objects
                        /\ objects[objects[r].superclass].name = parent
                        /\ \A p \in rets[<<parent, is_metaclass>>] :
                              objects[r].superclass = p
        IN  /\ \A c \in rets[<<child, FALSE>>] :
                  /\ SuperOK(c, FALSE)
                  /\ (parent # NoName /\ HasTemplate(catalog, parent)) =>
                        /\ read_isa(objects[c].superclass) = get_class(parent, TRUE)
                        /\ \A pm \in rets[<<parent, TRUE>>] :
                              read_isa(objects[c].superclass) = pm
            /\ \A cm \in rets[<<child, TRUE>>] : SuperOK(cm, TRUE)

\* In the chain Bar : Foo : NSObject, class and metaclass of Bar and of Foo
\* have been returned.
C6_Witness ==
    /\ status = "idle"
    /\ DOMAIN catalog = {"NSObject", "Foo", "Bar"}
    /\ \A k \in {"Foo", "Bar"} \X BOOLEAN : rets[k] # {}
    /\ \E c \in rets[<<"Bar", FALSE>>] : objects[c].superclass \in rets[<<"Foo", FALSE>>]
    /\ \E c \in rets[<<"NSObject", TRUE>>] : objects[c].superclass = nil

\* C7: once register_bin_classes has processed the entry of a class named n
\* at address a, the registry maps n to a; link_class/get_known_class of n
\* then return a, or the isa read from a, and no activation of
\* link_class_inner gets past the registry lookup for n, so that nothing is
\* allocated for n, with or without a template.
C7_BinaryClassOverwritesRegistry ==
    /\ \A n \in Names :
          binAddr[n] # nil =>
              /\ get_class_found(n)
              /\ classes[n] = binAddr[n]
              /\ objects[binAddr[n]].name = n
    /\ (/\ status = "idle"
        /\ lastCall.op \in {"link_class", "get_known_class"}
        /\ binAddr[lastCall.name] # nil)
       => ret = IF lastCall.is_metaclass
                THEN read_isa(binAddr[lastCall.name])
                ELSE binAddr[lastCall.name]
    /\ \A i \in 1..Len(stack) :
          binAddr[stack[i].name] # nil => stack[i].pc = "start"

\* A name with a template was linked, then ingested from the binary, and
\* link_class(n, true) has returned after that.
C7_Witness ==
    /\ status = "idle"
    /\ lastCall.op = "link_class"
    /\ lastCall.is_metaclass
    /\ HasTemplate(catalog, lastCall.name)
    /\ binAddr[lastCall.name] # nil
    /\ ret = read_isa(binAddr[lastCall.name])
    /\ \E r \in Allocated : objects[r].name = lastCall.name

(***************************************************************************)
(* The merge of categories that the specification of                       *)
(* register_bin_categories asks for (the code has a TODO in its place).    *)
(***************************************************************************)
\* The list of a category for the class side or the metaclass side.
CategoryMethodList(cat_ptr, is_metaclass) ==
    IF is_metaclass
    THEN BinCategoryRec[cat_ptr].class_methods
    ELSE BinCategoryRec[cat_ptr].instance_methods

\* Method m of the list of category i of the loop is not defined again by a
\* later category of the loop for the same class.
LastDefinition(i, m, is_metaclass) ==
    LET list == CategoryMethodList(loop.words[i], is_metaclass)
    IN  /\ \A m2 \in (m + 1)..Len(list) : list[m2][1] # list[m][1]
        /\ \A j \in (i + 1)..loop.n :
              BinCategoryRec[loop.words[j]].class = BinCategoryRec[loop.words[i]].class
              => list[m][1] \notin MethodNames(CategoryMethodList(loop.words[j], is_metaclass))

\* Method m of the list of category i of the loop has a selector that the
\* table of the category's class holds already, or that an earlier category
\* of the loop defines for the same class.
AlreadyDefined(i, m, is_metaclass) ==
    LET cat == BinCategoryRec[loop.words[i]]
        name == CategoryMethodList(loop.words[i], is_metaclass)[m][1]
        target == IF is_metaclass THEN read_isa(cat.class) ELSE cat.class
    IN  \/ /\ name \in DOMAIN selectors
           /\ selectors[name] \in DOMAIN objects[target].methods
        \/ \E j \in 1..(i - 1) :
              /\ BinCategoryRec[loop.words[j]].class = cat.class
              /\ name \in MethodNames(CategoryMethodList(loop.words[j], is_metaclass))

\* C8: when register_bin_categories returns, the method table of the class
\* of each category holds the selectors of the category's instance methods
\* and the metaclass's table those of its class methods, next to the
\* selectors the tables held before (Foo: bar from the binary, baz from the
\* category).
C8_CategoryMethodsAreMerged ==
    [][RegisterBinCategoriesDone =>
        \A i \in 1..loop.n :
            LET cat == BinCategoryRec[loop.words[i]]
            IN  cat.class \in DOMAIN objects =>
                  /\ \A name \in MethodNames(cat.instance_methods) :
                        /\ name \in DOMAIN selectors'
                        /\ selectors'[name] \in DOMAIN objects'[cat.class].methods
                  /\ \A name \in MethodNames(cat.class_methods) :
                        /\ name \in DOMAIN selectors'
                        /\ selectors'[name] \in DOMAIN objects'[read_isa(cat.class)].methods
                  /\ DOMAIN objects[cat.class].methods
                        \subseteq DOMAIN objects'[cat.class].methods]_vars

\* C9: when register_bin_categories returns, a selector that a category
\* defines and that the table of the category's class held already, or that
\* an earlier category of the list defines, maps in that table to the
\* implementation of the last category of the list that defines it.
C9_CategoryOverrides ==
    [][RegisterBinCategoriesDone =>
        \A i \in 1..loop.n :
            LET cat == BinCategoryRec[loop.words[i]]
            IN  cat.class \in DOMAIN objects =>
                  \A m \in 1..Len(cat.instance_methods) :
                      (LastDefinition(i, m, FALSE) /\ AlreadyDefined(i, m, FALSE)) =>
                        /\ cat.instance_methods[m][1] \in DOMAIN selectors'
                        /\ selectors'[cat.instance_methods[m][1]]
                              \in DOMAIN objects'[cat.class].methods
                        /\ objects'[cat.class].methods[selectors'[cat.instance_methods[m][1]]]
                              = cat.instance_methods[m][2]]_vars

\* C10: register_bin_classes and register_bin_categories, given a section
\* whose size is no multiple of 4, abort in the call itself: no entry is
\* read, and registry, host objects, isa fields and selectors are unchanged.
C10_SectionSizeRejected ==
    [][\A bin \in Binaries :
          /\ (CallRegisterBinClasses(bin)
              /\ bin.objc_classlist.present
              /\ bin.objc_classlist.size % 4 # 0)
             => /\ status' = "aborted"
                /\ UNCHANGED <<classes, objects, isa, nextAddr, selectors, loop>>
          /\ (CallRegisterBinCategories(bin)
              /\ bin.objc_catlist.present
              /\ bin.objc_catlist.size % 4 # 0)
             => /\ status' = "aborted"
                /\ UNCHANGED <<classes, objects, isa, nextAddr, selectors, loop>>]_vars

\* register_bin_classes has aborted on the size of its section, with
\* classes in the registry.
C10_Witness ==
    /\ status = "aborted"
    /\ fault = "section size"
    /\ lastCall.op = "register_bin_classes"
    /\ loop = NoLoop
    /\ DOMAIN classes = Names

\* The template of the name declares a superclass that has no template.
BrokenTemplate(name) ==
    /\ HasTemplate(catalog, name)
    /\ find_template(catalog, name).superclass # NoName
    /\ ~HasTemplate(catalog, find_template(catalog, name).superclass)

LinkCalls == {"link_class", "get_known_class"}

\* C11 as claimed: link_class/get_known_class of a name whose template
\* declares a superclass without template never returns.
C11_BrokenSuperclassNeverReturns ==
    (lastCall.op \in LinkCalls /\ BrokenTemplate(lastCall.name))
    => status # "idle"

\* C11, amended: link_class/get_known_class of a name that is not in the
\* registry and whose template declares a superclass without template
\* aborts in the step that finds the template, at the top level and in the
\* recursion for a subclass; the call has then allocated no object and
\* added no registry entry, and it never returns.
C11_UnregisteredBrokenSuperclassAborts ==
    /\ []((lastCall.op \in LinkCalls /\ BrokenTemplate(lastCall.name) /\ ~lastCall.known)
          => status # "idle")
    /\ [](\A i \in 1..Len(stack) :
              BrokenTemplate(stack[i].name) => stack[i].pc = "start")
    /\ []((status = "aborted" /\ fault = "superclass has no template")
          => /\ BrokenTemplate(Top.name)
             /\ nextAddr = pre.nextAddr
             /\ classes = pre.classes
             /\ DOMAIN objects \cap Allocated = 1..(pre.nextAddr - 1))
    /\ [][(Linking /\ Top.pc = "start" /\ ~get_class_found(Top.name)
             /\ BrokenTemplate(Top.name))
          => (status' = "aborted" /\ fault' = "superclass has no template"
              /\ UNCHANGED <<classes, objects, isa, nextAddr>>)]_vars

\* The assert! has failed in the recursion for a subclass, with other
\* classes in the registry.
C11_Witness ==
    /\ status = "aborted"
    /\ fault = "superclass has no template"
    /\ Len(stack) = 2
    /\ ~BrokenTemplate(stack[1].name)
    /\ DOMAIN classes # {}

\* C12: after link_class, get_known_class or register_bin_classes has
\* aborted, every name in the registry maps to a class for which a host
\* object exists and whose isa is a metaclass for which a host object
\* exists; no name that link_class_inner was resolving is in the registry,
\* and no registry entry points to the class-list entry that faulted.
C12_NoHalfRegisteredClass ==
    status = "aborted" =>
        /\ \A k \in DOMAIN classes :
               /\ classes[k] \in DOMAIN objects
               /\ objects[classes[k]] # NoObject
               /\ read_isa(classes[k]) \in DOMAIN objects
               /\ objects[read_isa(classes[k])] # NoObject
        /\ lastCall.op \in LinkCalls =>
               \A i \in 1..Len(stack) : stack[i].name \notin DOMAIN classes
        /\ (lastCall.op = "register_bin_classes" /\ loop.i < loop.n) =>
               \A k \in DOMAIN classes : classes[k] # loop.words[loop.i + 1]

\* register_bin_classes has aborted on its second entry: the entry before
\* it is in the registry.
C12_Witness ==
    /\ status = "aborted"
    /\ lastCall.op = "register_bin_classes"
    /\ loop.i = 1
    /\ DOMAIN classes # DOMAIN pre.classes

\* Every superclass a template declares has a template of its own.
ClosedCatalog ==
    \A n \in DOMAIN catalog :
        find_template(catalog, n).superclass # NoName
        => HasTemplate(catalog, find_template(catalog, n).superclass)

\* The superclass chain of `name` ends within k links.
RECURSIVE ChainEnds(_, _)
ChainEnds(name, k) ==
    IF ~HasTemplate(catalog, name) \/ find_template(catalog, name).superclass = NoName
    THEN TRUE
    ELSE IF k = 0 THEN FALSE
    ELSE ChainEnds(find_template(catalog, name).superclass, k - 1)

\* No template is its own ancestor.
AcyclicCatalog == \A n \in DOMAIN catalog : ChainEnds(n, Cardinality(DOMAIN catalog))

\* C13 as claimed: link_class, with a catalog in which every declared
\* superclass has a template, never exhausts the stack.
C13_LinkWithClosedCatalogNeverOverflows ==
    (lastCall.op = "link_class" /\ ClosedCatalog) => fault # "stack overflow"

\* C13, amended: with a catalog in which every declared superclass has a
\* template and no template is its own ancestor, link_class never exhausts
\* the stack, holds each name at most once on the stack, and every call
\* comes to its end: it returns, or it aborts because a template names an
\* unregistered selector.
C13_LinkWithAcyclicCatalogTerminates ==
    /\ []((lastCall.op = "link_class" /\ ClosedCatalog /\ AcyclicCatalog)
          => /\ fault # "stack overflow"
             /\ \A i, j \in 1..Len(stack) : stack[i].name = stack[j].name => i = j)
    /\ (Linking /\ lastCall.op = "link_class" /\ ClosedCatalog /\ AcyclicCatalog)
       ~> (\/ status = "idle"
           \/ status = "aborted" /\ fault = "unregistered selector")

\* link_class has returned the class of a template with two ancestors.
C13_Witness ==
    /\ status = "idle"
    /\ lastCall = Call("link_class", "Bar", FALSE, FALSE)
    /\ ClosedCatalog /\ AcyclicCatalog
    /\ HasTemplate(catalog, "Bar")
    /\ ret = classes["Bar"]
    /\ DOMAIN classes = {"NSObject", "Foo", "Bar"}

\* C14: in every state, for every registry entry k -> c, the host object of
\* c has name k and is not a metaclass, and the host object of the isa of c
\* has name k and is a metaclass, whether the pair was built from a
\* template, as a placeholder or from the binary.
C14_RegistryEntryNamesItsPair ==
    \A k \in DOMAIN classes :
        LET c == classes[k]
        IN  /\ c \in DOMAIN objects
            /\ objects[c].kind \in {"class", "unimplemented"}
            /\ objects[c].name = k
            /\ objects[c].is_metaclass = FALSE
            /\ read_isa(c) \in DOMAIN objects
            /\ objects[read_isa(c)].kind = objects[c].kind
            /\ objects[read_isa(c)].name = k
            /\ objects[read_isa(c)].is_metaclass = TRUE

\* The registry holds a placeholder pair, a pair from a template and a pair
\* from the binary.
C14_Witness ==
    /\ \E k \in DOMAIN classes : objects[classes[k]].kind = "unimplemented"
    /\ \E k \in DOMAIN classes :
           /\ objects[classes[k]].kind = "class"
           /\ classes[k] \in Allocated
    /\ \E k \in DOMAIN classes : classes[k] \in BinClassAddrs

\* C15: a host object that link_class_inner built from a template has as
\* method table exactly the selectors of the template's instance methods
\* (class) or class methods (metaclass); each selector maps to the
\* implementation of the last pair of that list with its name.
C15_TemplateMethodTables ==
    \A a \in Allocated :
        objects[a].kind = "class" =>
            LET list == TemplateMethodList(find_template(catalog, objects[a].name),
                                           objects[a].is_metaclass)
            IN  /\ DOMAIN objects[a].methods =
                       { selectors[list[i][1]] : i \in 1..Len(list) }
                /\ \A i \in 1..Len(list) :
                       (\A j \in (i + 1)..Len(list) : list[j][1] # list[i][1])
                       => objects[a].methods[selectors[list[i][1]]] = list[i][2]

\* NSObject is linked from its template, which lists "init" twice among the
\* instance methods and once among the class methods.
C15_Witness ==
    /\ "NSObject" \in DOMAIN classes
    /\ objects[classes["NSObject"]].kind = "class"
    /\ objects[classes["NSObject"]].methods =
           (selectors["init"] :> HostIMP(6)) @@ (selectors["bar"] :> HostIMP(3))
    /\ objects[read_isa(classes["NSObject"])].methods =
           (selectors["init"] :> HostIMP(1))

\* The template of the name lists, among its instance or class methods, a
\* name that objc.selectors does not hold.
NamesUnregisteredSelector(name) ==
    /\ HasTemplate(catalog, name)
    /\ \/ FromTemplatePanics(find_template(catalog, name), FALSE, selectors)
       \/ FromTemplatePanics(find_template(catalog, name), TRUE, selectors)

\* C16 as claimed: link_class/get_known_class of a name whose template
\* names an unregistered selector never returns.
C16_UnregisteredSelectorNeverReturns ==
    (lastCall.op \in LinkCalls /\ NamesUnregisteredSelector(lastCall.name))
    => status # "idle"

\* C16, amended: link_class/get_known_class of a name that is not in the
\* registry and whose template names an unregistered selector never
\* returns; link_class_inner gets no further than from_template for such a
\* name, the step that builds the host object aborts and changes neither
\* registry nor objects, and after the abort the name is not in the
\* registry and no allocated object carries it.
C16_UnregisteredSelectorAborts ==
    /\ []((lastCall.op \in LinkCalls /\ ~lastCall.known
             /\ NamesUnregisteredSelector(lastCall.name))
          => status # "idle")
    /\ [](\A i \in 1..Len(stack) :
              NamesUnregisteredSelector(stack[i].name)
              => stack[i].pc \notin {"alloc_meta", "write_isa", "alloc_class"})
    /\ []((status = "aborted" /\ fault = "unregistered selector")
          => /\ NamesUnregisteredSelector(Top.name)
             /\ Top.name \notin DOMAIN classes
             /\ \A a \in Allocated : objects[a].name # Top.name)
    /\ [][(Linking
             /\ \/ Top.pc = "class_obj"
                     /\ FromTemplatePanics(find_template(catalog, Top.name), FALSE, selectors)
                \/ Top.pc = "meta_obj"
                     /\ FromTemplatePanics(find_template(catalog, Top.name), TRUE, selectors))
          => (status' = "aborted" /\ fault' = "unregistered selector"
              /\ UNCHANGED <<classes, objects, isa, nextAddr>>)]_vars

\* from_template has panicked for the superclass of the name that was to be
\* linked, with another class in the registry.
C16_Witness ==
    /\ status = "aborted"
    /\ fault = "unregistered selector"
    /\ Len(stack) = 2
    /\ Top.pc = "class_obj"
    /\ ~lastCall.known
    /\ DOMAIN classes # {}

\* The class-list entry register_bin_classes is at has a class record and a
\* metaclass record (its isa) with different names.
EntryNamesDiffer ==
    /\ status = "classes"
    /\ loop.i < loop.n
    /\ BinClassRec[loop.words[loop.i + 1]].name
           # BinClassRec[read_isa(loop.words[loop.i + 1])].name

\* C17: the iteration of register_bin_classes for an entry whose class and
\* metaclass records have different names aborts; it registers no host
\* object and leaves the registry as it is, so that afterwards the class of
\* the entry has no host object and no registry entry points to it.
C17_NameMismatchAborts ==
    /\ [][EntryNamesDiffer
          => (/\ status' = "aborted"
              /\ fault' = "class and metaclass names differ"
              /\ UNCHANGED <<classes, objects, isa>>)]_vars
    /\ []((status = "aborted" /\ fault = "class and metaclass names differ")
          => /\ loop.words[loop.i + 1] \notin DOMAIN objects
             /\ \A k \in DOMAIN classes : classes[k] # loop.words[loop.i + 1])

\* register_bin_classes has aborted on an entry named "Foo" while the
\* registry holds the "Foo" that link_class allocated.
C17_Witness ==
    /\ status = "aborted"
    /\ fault = "class and metaclass names differ"
    /\ BinClassRec[loop.words[loop.i + 1]].name = "Foo"
    /\ "Foo" \in DOMAIN classes
    /\ classes["Foo"] \in Allocated

\* The category register_bin_categories is at names a class that is not a
\* class of the registry.
TargetUnregistered ==
    /\ status = "categories"
    /\ loop.i < loop.n
    /\ BinCategoryRec[loop.words[loop.i + 1]].class
           \notin { classes[k] : k \in DOMAIN classes }

\* C18: the iteration of register_bin_categories for a category whose
\* class is not a registered class aborts.
C18_UnresolvedCategoryTargetAborts ==
    [][TargetUnregistered => status' = "aborted"]_vars

\* The objects link_class_inner allocated for a name, classes or metaclasses.
AllocatedFor(name, is_metaclass) ==
    { a \in Allocated : objects[a].name = name /\ objects[a].is_metaclass = is_metaclass }

\* C19: an activation of link_class_inner for a name that is in the
\* registry returns the registered class (or its isa) in its first step,
\* whatever the catalog holds for the name, and leaves registry, host
\* objects, guest memory, allocation mark and selectors unchanged, as does
\* the call itself; hence link_class allocates at most one class and one
\* metaclass for a name, and exactly one of each for a name it registered.
C19_RegisteredNameIsOnlyLookedUp ==
    /\ [][(Linking /\ Top.pc = "start" /\ Top.name \in DOMAIN classes)
          => (/\ UNCHANGED <<classes, objects, isa, nextAddr, selectors>>
              /\ Len(stack') = Len(stack) - 1
              /\ Len(stack) = 1 =>
                     /\ status' = "idle"
                     /\ ret' = IF Top.is_metaclass
                               THEN isa[classes[Top.name]]
                               ELSE classes[Top.name])]_vars
    /\ [][(status = "idle" /\ status' = "linking")
          => UNCHANGED <<classes, objects, isa, nextAddr, selectors>>]_vars
    /\ [](\A n \in Names, m \in BOOLEAN :
              /\ Cardinality(AllocatedFor(n, m)) <= 1
              /\ (n \in DOMAIN classes /\ classes[n] \in Allocated)
                 => Cardinality(AllocatedFor(n, m)) = 1)

\* get_known_class has returned the registered placeholder of a name
\* without template, and link_class has allocated pairs for three names.
C19_Witness ==
    /\ status = "idle"
    /\ lastCall.op = "get_known_class"
    /\ lastCall.known
    /\ ~HasTemplate(catalog, lastCall.name)
    /\ ret = classes[lastCall.name]
    /\ nextAddr = 7

\* C20: no step of link_class, get_known_class, register_bin_classes or
\* register_bin_categories removes a name from the registry, and none
\* changes the name, the is_metaclass flag or the superclass of a host
\* object that link_class_inner allocated.
C20_RegistryGrowsLinkedObjectsStay ==
    [][/\ DOMAIN classes \subseteq DOMAIN classes'
       /\ \A a \in Allocated :
              /\ a \in DOMAIN objects'
              /\ objects'[a].kind = objects[a].kind
              /\ objects'[a].name = objects[a].name
              /\ objects'[a].is_metaclass = objects[a].is_metaclass
              /\ objects'[a].superclass = objects[a].superclass]_vars

\* After all four operations the registry maps "Foo" to the class of the
\* binary, and the class link_class built from the template of Foo, with
\* its superclass, is still there.
C20_Witness ==
    /\ status = "idle"
    /\ lastCall.op = "register_bin_categories"
    /\ DOMAIN classes = Names
    /\ classes["Foo"] = 101
    /\ \E a \in AllocatedFor("Foo", FALSE) :
           /\ objects[a].kind = "class"
           /\ objects[a].superclass = classes["NSObject"]

\* C21: register_bin_classes on a binary without __objc_classlist and
\* register_bin_categories on a binary without __objc_catlist return at
\* once: no abort, no loop, and registry, host objects, guest memory,
\* allocation mark and selectors are as before.
C21_AbsentSectionIsNoOp ==
    [][\A bin \in Binaries :
          /\ (CallRegisterBinClasses(bin) /\ ~bin.objc_classlist.present)
             => /\ status' = "idle" /\ fault' = fault /\ loop' = NoLoop
                /\ UNCHANGED <<classes, objects, isa, nextAddr, selectors>>
          /\ (CallRegisterBinCategories(bin) /\ ~bin.objc_catlist.present)
             => /\ status' = "idle" /\ fault' = fault /\ loop' = NoLoop
                /\ UNCHANGED <<classes, objects, isa, nextAddr, selectors>>]_vars

\* register_bin_classes has returned for a binary without class list: the
\* registry holds the three classes that link_class allocated, none of the
\* binary.
C21_Witness ==
    /\ status = "idle"
    /\ lastCall.op = "register_bin_classes"
    /\ pre = NoSnapshot
    /\ DOMAIN classes = Names
    /\ \A n \in Names : classes[n] \in Allocated

\* The superclass field of a host object is nil or an object whose host
\* object is a ClassHostObject.
RealSuperclass(host_object) ==
    \/ host_object.superclass = nil
    \/ /\ host_object.superclass \in DOMAIN objects
       /\ objects[host_object.superclass].kind = "class"

\* C22: in every state, the superclass of a class or metaclass that
\* link_class_inner built from a template, allocated or still held by an
\* activation, is nil or a ClassHostObject, never an UnimplementedClass,
\* whether link_class or get_known_class was called.
C22_TemplateSuperclassIsNeverPlaceholder ==
    /\ \A a \in Allocated : objects[a].kind = "class" => RealSuperclass(objects[a])
    /\ \A i \in 1..Len(stack) :
           /\ RealSuperclass(stack[i].class_host_object)
           /\ RealSuperclass(stack[i].metaclass_host_object)
           /\ stack[i].sup # nil =>
                  (stack[i].sup \in DOMAIN objects /\ objects[stack[i].sup].kind = "class")

\* get_known_class has returned a class built from a template whose
\* superclass was linked by the same call, while the registry also holds a
\* placeholder.
C22_Witness ==
    /\ status = "idle"
    /\ lastCall.op = "get_known_class"
    /\ ~lastCall.known
    /\ ret \in Allocated
    /\ objects[ret].superclass # nil
    /\ objects[ret].superclass \in Allocated
    /\ \E k \in DOMAIN classes : objects[classes[k]].kind = "unimplemented"

(***************************************************************************)
(* core_animation::composition::recomposite_if_necessary.  Instants and    *)
(* Durations are whole nanoseconds, as in std::time.                       *)
(***************************************************************************)
MaxNow == 200000000

MaxWindows == 1

\* let interval = 1.0 / 60.0; // 60Hz
Hz == 60

\* std::time: nanoseconds per second.
NANOS_PER_SEC == 1000000000

\* Duration::from_secs_f64(interval): the f64 1/60 s converted to whole
\* nanoseconds, rounded to the nearest.
Interval == (2 * NANOS_PER_SEC + Hz) \div (2 * Hz)

\* The greatest common divisor of Hz and NANOS_PER_SEC.
HzGcd == CHOOSE g \in 1..Hz :
             /\ Hz % g = 0 /\ NANOS_PER_SEC % g = 0
             /\ \A h \in (g + 1)..Hz : ~(Hz % h = 0 /\ NANOS_PER_SEC % h = 0)

\* f64::ceil of a quotient of two positive quantities.
Ceil(num, den) == (num + den - 1) \div den

\* AdvanceBy that never skips the intervals that were missed.
AdvanceBy_One(overdue_by) == 1

\* (overdue_by.as_secs_f64() / interval).max(1.0).ceil() as u32: the number
\* of 1/60 s that overdue_by spans, rounded up, at least 1.  For the
\* durations that occur here the f64 quotient has the ceiling of the exact
\* quotient overdue_by * Hz / NANOS_PER_SEC.
AdvanceBy(overdue_by) ==
    LET intervals == Ceil(overdue_by * (Hz \div HzGcd), NANOS_PER_SEC \div HzGcd)
    IN  IF intervals > 1 THEN intervals ELSE 1

\* if recomposite_next > now { return Some(recomposite_next); }
NotYet(next, t) == next # None /\ next > t

\* new_recomposite_next.
NewRecompositeNext(next, t) ==
    IF next # None
    THEN next + AdvanceBy(t - next) * Interval
    ELSE t + Interval

\* CompositionNotInUse without the CAEAGLLayer fast path.
CompositionNotInUse_IgnoresEagl == visible_windows = <<>>

\* Composition is not in use: no visible window, or a fullscreen CAEAGLLayer
\* that is presented directly.
CompositionNotInUse ==
    \/ visible_windows = <<>>
    \/ fullscreen_eagl_layer # nil

\* The time the clock may advance between two calls.
Ticks == {Interval - 1, Interval, 3 * Interval - 1, 6 * Interval - 1}

\* A window becomes visible (UIWindow makeKeyAndVisible).
ShowWindow ==
    /\ Len(visible_windows) < MaxWindows
    /\ visible_windows' = Append(visible_windows, Len(visible_windows) + 1)
    /\ UNCHANGED <<objcVars, clipVars, fullscreen_eagl_layer, now, recomposite_next,
                   texture_framebuffer, result, presented>>

\* The top window goes away.
HideWindow ==
    /\ visible_windows # <<>>
    /\ visible_windows' = SubSeq(visible_windows, 1, Len(visible_windows) - 1)
    /\ UNCHANGED <<objcVars, clipVars, fullscreen_eagl_layer, now, recomposite_next,
                   texture_framebuffer, result, presented>>

\* The app gets or loses a fullscreen CAEAGLLayer.
SetFullscreenEaglLayer(layer) ==
    /\ fullscreen_eagl_layer # layer
    /\ fullscreen_eagl_layer' = layer
    /\ UNCHANGED <<objcVars, clipVars, visible_windows, now, recomposite_next,
                   texture_framebuffer, result, presented>>

\* Time passes.
Tick(d) ==
    /\ now + d <= MaxNow
    /\ now' = now + d
    /\ UNCHANGED <<objcVars, clipVars, visible_windows, fullscreen_eagl_layer,
                   recomposite_next, texture_framebuffer, result, presented>>

\* recomposite_if_necessary(env), called by NSRunLoop.
RecompositeIfNecessary ==
    /\ IF CompositionNotInUse
       THEN /\ result' = None
            /\ presented' = FALSE
            /\ UNCHANGED <<recomposite_next, texture_framebuffer>>
       ELSE IF NotYet(recomposite_next, now)
       THEN /\ result' = recomposite_next
            /\ presented' = FALSE
            /\ UNCHANGED <<recomposite_next, texture_framebuffer>>
       ELSE /\ recomposite_next' = NewRecompositeNext(recomposite_next, now)
            /\ texture_framebuffer' = 1
            /\ presented' = TRUE
            /\ result' = NewRecompositeNext(recomposite_next, now)
    /\ UNCHANGED <<objcVars, clipVars, visible_windows, fullscreen_eagl_layer, now>>

NextComposition ==
    \/ ShowWindow
    \/ HideWindow
    \/ \E layer \in {nil, 1} : SetFullscreenEaglLayer(layer)
    \/ \E d \in Ticks : Tick(d)
    \/ RecompositeIfNecessary

\* The run loop calls recomposite_if_necessary while windows come and go
\* and time passes.
SpecComposition == Init /\ [][NextComposition]_vars

\* C23: a call of recomposite_if_necessary with no visible window or with a
\* fullscreen CAEAGLLayer returns None; a call with a stored deadline later
\* than now returns that deadline; both leave recomposite_next and the
\* texture/framebuffer as they are and present no frame.
C23_NothingDoneWhenNotInUseOrTooSoon ==
    [][RecompositeIfNecessary =>
          /\ (visible_windows = <<>> \/ fullscreen_eagl_layer # nil)
             => /\ result' = None
                /\ ~presented'
                /\ UNCHANGED <<recomposite_next, texture_framebuffer>>
          /\ (visible_windows # <<>> /\ fullscreen_eagl_layer = nil
                /\ recomposite_next # None /\ recomposite_next > now)
             => /\ result' = recomposite_next
                /\ ~presented'
                /\ UNCHANGED <<recomposite_next, texture_framebuffer>>]_vars

\* With a fullscreen CAEAGLLayer and a stored deadline that has passed, the
\* call has returned None and presented nothing.
C23_Witness ==
    /\ visible_windows # <<>>
    /\ fullscreen_eagl_layer # nil
    /\ recomposite_next # None
    /\ recomposite_next < now
    /\ result = None
    /\ ~presented

\* The largest number of intervals a deadline can be advanced by here.
MaxAdvance == MaxNow \div Interval + 1

\* C24 as claimed: a call that composites stores the deadline it returns:
\* now + Interval when none was stored, else the old deadline plus k >= 1
\* intervals, not earlier than now and at most one interval after now; and
\* the stored deadline never moves backwards.
C24_NewDeadlineWithinOneInterval ==
    [][/\ (recomposite_next # None /\ recomposite_next' # recomposite_next)
          => recomposite_next' > recomposite_next
       /\ (RecompositeIfNecessary /\ presented')
          => /\ result' = recomposite_next'
             /\ recomposite_next = None => recomposite_next' = now + Interval
             /\ recomposite_next # None =>
                    \E k \in 1..MaxAdvance :
                        /\ recomposite_next' = recomposite_next + k * Interval
                        /\ recomposite_next' >= now
                        /\ recomposite_next' <= now + Interval]_vars

\* C24, amended: as above, but the new deadline is at most one interval
\* plus k \div 3 nanoseconds after now: the interval is 1/60 s rounded up
\* to whole nanoseconds, while k counts the 1/60 s that have passed.
C24_NewDeadlineWithinOneIntervalAndRounding ==
    [][/\ (recomposite_next # None /\ recomposite_next' # recomposite_next)
          => recomposite_next' > recomposite_next
       /\ recomposite_next # None => recomposite_next' # None
       /\ (RecompositeIfNecessary /\ presented')
          => /\ result' = recomposite_next'
             /\ recomposite_next = None => recomposite_next' = now + Interval
             /\ recomposite_next # None =>
                    \E k \in 1..MaxAdvance :
                        /\ recomposite_next' = recomposite_next + k * Interval
                        /\ recomposite_next' >= now
                        /\ recomposite_next' <= now + Interval + k \div 3]_vars

\* The compositor was lagging and the deadline just stored is one interval
\* and one nanosecond after now.
C24_Witness ==
    /\ presented
    /\ result = recomposite_next
    /\ recomposite_next = now + Interval + 1

(***************************************************************************)
(* core_animation::composition::clip_rects, as composite_layer_recursive   *)
(* calls it.  Coordinates are small whole numbers, which f32 holds exactly.*)
(***************************************************************************)
MaxCoord == 1

MaxSize == 2

\* f32::max and f32::min.
max(x, y) == IF x >= y THEN x ELSE y
min(x, y) == IF x <= y THEN x ELSE y

\* fn clip_rects(a_clip: CGRect, b_clip: CGRect) -> CGRect.
clip_rects(a_clip, b_clip) ==
    LET a_x1 == a_clip.origin.x
        a_y1 == a_clip.origin.y
        a_x2 == a_x1 + a_clip.size.width
        a_y2 == a_y1 + a_clip.size.height
        b_x1 == b_clip.origin.x
        b_y1 == b_clip.origin.y
        b_x2 == b_x1 + a_clip.size.width
        b_y2 == b_y1 + a_clip.size.height
        x1 == max(b_x1, a_x1)
        y1 == max(b_y1, a_y1)
        x2 == min(b_x2, a_x2)
        y2 == min(b_y2, a_y2)
    IN  CGRect(x1, y1, max(x2 - x1, 0), max(y2 - y1, 0))

\* The rectangles a layer tree can hand to clip_rects: origins on either
\* side of zero, sizes not negative.
Rects ==
    { CGRect(x, y, w, h) : x \in (0 - MaxCoord)..MaxCoord, y \in (0 - MaxCoord)..MaxCoord,
                           w \in 0..MaxSize, h \in 0..MaxSize }

\* composite_layer_recursive is called with a clip rectangle for a layer
\* that is not hidden and computes the layer's absolute frame.
CompositeLayerRecursive ==
    /\ clip_to = NoRect
    /\ \E clip \in Rects, frame \in Rects :
           /\ clip_to' = clip
           /\ absolute_frame' = frame
    /\ UNCHANGED <<objcVars, compVars, absolute_frame_clipped>>

\* let absolute_frame_clipped = clip_rects(clip_to, absolute_frame);
ClipAbsoluteFrame ==
    /\ clip_to # NoRect
    /\ absolute_frame_clipped = NoRect
    /\ absolute_frame_clipped' = clip_rects(clip_to, absolute_frame)
    /\ UNCHANGED <<objcVars, compVars, clip_to, absolute_frame>>

NextClip ==
    \/ CompositeLayerRecursive
    \/ ClipAbsoluteFrame

\* A layer is composited: any clip rectangle, any frame.
SpecClip == Init /\ [][NextClip]_vars

\* The point (x, y) lies in the rectangle, edges included on the low side.
Covers(rect, x, y) ==
    /\ rect.origin.x <= x /\ x < rect.origin.x + rect.size.width
    /\ rect.origin.y <= y /\ y < rect.origin.y + rect.size.height

\* The unit cells of the plane the rectangles of the model can touch.
Cells == ((0 - MaxCoord)..(MaxCoord + MaxSize)) \X ((0 - MaxCoord)..(MaxCoord + MaxSize))

\* C25: the rectangle composite_layer_recursive gets from clip_rects covers
\* exactly the cells that both the clip rectangle and the frame cover: it
\* lies inside both, is their common area when they overlap and has no
\* area when they do not.
C25_ClipRectsIsIntersection ==
    absolute_frame_clipped # NoRect =>
        \A c \in Cells :
            Covers(absolute_frame_clipped, c[1], c[2])
            <=> (Covers(clip_to, c[1], c[2]) /\ Covers(absolute_frame, c[1], c[2]))

====
